---- MODULE Spec2Model ----
(***************************************************************************)
(* A model of pyhydrate: the key normaliser (NotationBase._cast_key), the  *)
(* eager construction of the node tree (NotationObject, NotationArray,     *)
(* NotationPrimitive), the access protocol (__getattr__, __getitem__), the *)
(* call protocol (__call__) and the root wrapper (PyHydrate).              *)
(*                                                                         *)
(* Python strings that the program inspects character by character (keys,  *)
(* attribute names, string indices) are sequences of one-character         *)
(* strings.  Python objects live in a heap: a sequence of node records, a  *)
(* node's identity being its position in the heap.                         *)
(***************************************************************************)
EXTENDS Integers, Sequences, FiniteSets, TLC

VARIABLES
    source,     \* the raw value handed to PyHydrate(...)
    heap,       \* every Notation* object allocated so far, by identity
    warnings,   \* number of warnings.warn calls so far
    root,       \* the PyHydrate wrapper: [_root_type, _structure]
    cur,        \* the object the client's expression currently denotes
    raised,     \* the exception that escaped the last operation, or "none"
    out,        \* what the last call returned
    missed,     \* whether some access of the current chain missed
    log,        \* the accesses performed so far
    key,        \* SpecKey: the source key under normalisation
    casts       \* SpecKey: the results of _cast_key applied to key, then to its own result

vars == <<source, heap, warnings, root, cur, raised, out, missed, log, key, casts>>

treeVars == <<source, heap, warnings, root, cur, raised, out, missed, log>>

keyVars == <<key, casts>>

(***************************************************************************)
(* Bounds of the model.                                                    *)
(***************************************************************************)
\* longest source key drawn in SpecKey
MaxKeyLen == 4

\* longest list built by the sources of Init
MaxLen == 2

\* most entries of a mapping built by the sources of Init
MaxKeys == 2

\* accesses and calls performed by the client in Spec
MaxSteps == 3

\* accesses performed by the client in SpecIndex
MaxProbes == 2

\* accesses and calls performed by the client in SpecCall
MaxCalls == 2

(***************************************************************************)
(* Characters and strings.                                                 *)
(***************************************************************************)
LowerChars == <<"a", "b", "c", "d", "e", "f", "g", "h", "i", "j", "k", "l", "m",
                "n", "o", "p", "q", "r", "s", "t", "u", "v", "w", "x", "y", "z">>

UpperChars == <<"A", "B", "C", "D", "E", "F", "G", "H", "I", "J", "K", "L", "M",
                "N", "O", "P", "Q", "R", "S", "T", "U", "V", "W", "X", "Y", "Z">>

DigitChars == <<"0", "1", "2", "3", "4", "5", "6", "7", "8", "9">>

Range(s) == {s[i] : i \in 1..Len(s)}

DigitSet == Range(DigitChars)

LowerSet == Range(LowerChars)

UpperSet == Range(UpperChars)

\* regex class \d
IsDigit(c) == c \in DigitSet

\* regex class [a-z]
IsLower(c) == c \in LowerSet

\* regex class [A-Z]
IsUpper(c) == c \in UpperSet

\* the lower-case letter of every upper-case letter
Lowered == [c \in UpperSet |-> LowerChars[CHOOSE i \in 1..Len(UpperChars) : UpperChars[i] = c]]

\* str.lower() on one character
LowerChar(c) == IF IsUpper(c) THEN Lowered[c] ELSE c

\* str.lower()
lower(s) == [i \in 1..Len(s) |-> LowerChar(s[i])]

\* str.replace(old, new) for one-character old and new
replace(s, old, new) == [i \in 1..Len(s) |-> IF s[i] = old THEN new ELSE s[i]]

\* str.strip('_'): drop leading and trailing underscores
RECURSIVE lstrip(_)
lstrip(s) == IF s # <<>> /\ Head(s) = "_" THEN lstrip(Tail(s)) ELSE s

RECURSIVE rstrip(_)
rstrip(s) == IF s # <<>> /\ s[Len(s)] = "_" THEN rstrip(SubSeq(s, 1, Len(s) - 1)) ELSE s

strip(s) == rstrip(lstrip(s))

\* re.sub(r'_+', '_', s): every run of underscores becomes one underscore
RECURSIVE CollapseUnderscores(_)
CollapseUnderscores(s) ==
    IF Len(s) < 2 THEN s
    ELSE IF s[1] = "_" /\ s[2] = "_" THEN CollapseUnderscores(Tail(s))
    ELSE <<s[1]>> \o CollapseUnderscores(Tail(s))

\* _cast_pattern at position p of s (between s[p] and s[p+1], 0 <= p <= Len(s)):
\*   (?<!\d)(?=\d) | (?<=\d)(?!\d) | (?<=[a-z])(?=[A-Z])
\* a lookbehind at the start and a lookahead at the end see no character.
_cast_pattern(s, p) ==
    LET before == p >= 1
        after == p < Len(s)
    IN  \/ ~(before /\ IsDigit(s[p])) /\ (after /\ IsDigit(s[p + 1]))
        \/ (before /\ IsDigit(s[p])) /\ ~(after /\ IsDigit(s[p + 1]))
        \/ (before /\ IsLower(s[p])) /\ (after /\ IsUpper(s[p + 1]))

\* _cast_pattern.sub('_', s): an underscore at every position the (empty)
\* pattern matches, from position p on.
RECURSIVE CastPatternSub(_, _)
CastPatternSub(s, p) ==
    LET here == IF _cast_pattern(s, p) THEN <<"_">> ELSE <<>>
    IN  IF p >= Len(s) THEN here
        ELSE here \o <<s[p + 1]>> \o CastPatternSub(s, p + 1)

\* _cast_key without the collapse of underscore runs
_cast_key_no_collapse(string) ==
    LET _kebab_clean == replace(replace(string, "-", "_"), " ", "_")
        _parsed == CastPatternSub(_kebab_clean, 0)
    IN  strip(lower(_parsed))

\* _cast_key lowering the key before the boundaries are found
_cast_key_lower_first(string) ==
    LET _kebab_clean == replace(replace(string, "-", "_"), " ", "_")
        _parsed == CastPatternSub(lower(_kebab_clean), 0)
    IN  strip(CollapseUnderscores(_parsed))

\* NotationBase._cast_key
_cast_key(string) ==
    LET _kebab_clean == replace(replace(string, "-", "_"), " ", "_")
        _parsed == CastPatternSub(_kebab_clean, 0)
    IN  strip(lower(CollapseUnderscores(_parsed)))

(***************************************************************************)
(* The normaliser as the specification words it (section 4.1), step by     *)
(* step.  A boundary lies between two adjacent characters.                 *)
(***************************************************************************)
Boundary(a, b) ==
    \/ IsDigit(a) /\ ~IsDigit(b)
    \/ ~IsDigit(a) /\ IsDigit(b)
    \/ IsLower(a) /\ IsUpper(b)

RECURSIVE InsertBoundaries(_)
InsertBoundaries(s) ==
    IF Len(s) < 2 THEN s
    ELSE <<s[1]>> \o (IF Boundary(s[1], s[2]) THEN <<"_">> ELSE <<>>) \o InsertBoundaries(Tail(s))

normalize(source_key) ==
    LET step1 == replace(replace(source_key, "-", "_"), " ", "_")
        step2 == InsertBoundaries(step1)
        step3 == CollapseUnderscores(step2)
        step4 == lower(step3)
    IN  strip(step4)

(***************************************************************************)
(* NotationObject.__init__ normalises a key with self.cast_key.  No class  *)
(* under src/ defines that name: it is inherited from                      *)
(* NotationRepresentation, whose module is not among the sources, and is   *)
(* modelled by the normaliser of section 4.1.                              *)
(***************************************************************************)
cast_key(string) == normalize(string)

(***************************************************************************)
(* Python values.  A mapping is the sequence of its entries in insertion   *)
(* order, its keys pairwise different.                                     *)
(***************************************************************************)
Unset == [t |-> "unset"]

PyNone == [t |-> "NoneType"]

PyInt(n) == [t |-> "int", n |-> n]

PyBool(b) == [t |-> "bool", b |-> b]

PyStr(s) == [t |-> "str", s |-> s]

PyDict(items) == [t |-> "dict", items |-> items]

PyList(elems) == [t |-> "list", elems |-> elems]

PyType(name) == [t |-> "type", name |-> name]

\* a value of a type no constructor supports
PyTuple == [t |-> "tuple"]

\* d.setdefault(k, v): an entry already there is kept
DictSetDefault(d, k, v) ==
    IF \E i \in 1..Len(d) : d[i].k = k THEN d ELSE Append(d, [k |-> k, v |-> v])

\* d[k] = v
DictSet(d, k, v) ==
    IF \E i \in 1..Len(d) : d[i].k = k
    THEN [i \in 1..Len(d) |-> IF d[i].k = k THEN [k |-> k, v |-> v] ELSE d[i]]
    ELSE Append(d, [k |-> k, v |-> v])

\* k in d
DictHas(d, k) == \E i \in 1..Len(d) : d[i].k = k

\* d.get(k, default)
DictGet(d, k, default) ==
    IF DictHas(d, k) THEN d[CHOOSE i \in 1..Len(d) : d[i].k = k].v ELSE default

(***************************************************************************)
(* The heap.  mem = [heap, warnings]; a constructor returns the memory it  *)
(* leaves and the identity of the object it made.                          *)
(***************************************************************************)
New(mem, node) == [mem |-> [mem EXCEPT !.heap = Append(@, node)], id |-> Len(mem.heap) + 1]

\* warnings.warn(_warning)
Warn(mem) == [mem EXCEPT !.warnings = @ + 1]

\* NotationPrimitive._primitives
_primitives_without_none == {"str", "int", "float", "bool"}

_primitives == {"str", "int", "float", "bool", "NoneType"}

\* NotationBase._value
_value(self) == self._cleaned_value

\* NotationBase._type: type(self._value)
_type(self) == PyType(_value(self).t)

\* _element naming the type by isinstance: a bool is an int
_element_bool_as_int(self) ==
    PyDict(<<[k |-> IF _type(self).name = "bool" THEN "int" ELSE _type(self).name, v |-> _value(self)]>>)

\* NotationBase._element: {self._type.__name__: self._value}
_element(self) == PyDict(<<[k |-> _type(self).name, v |-> _value(self)]>>)

\* NotationBase.__call__ on the object id, with positional arguments args
\* (at most one).  It stores the request in self._call before answering.
__call__(mem, id, args) ==
    LET _call == IF args = <<>> THEN "value" ELSE args[1]
        self == mem.heap[id]
        ret == IF _call = "value" THEN _value(self)
               ELSE IF _call = "element" THEN _element(self)
               ELSE IF _call = "type" THEN _type(self)
               ELSE IF _call = "depth" THEN PyInt(self._depth)
               ELSE IF _call = "map" THEN PyNone
               ELSE PyNone
    IN  [mem |-> [mem EXCEPT !.heap[id]._call = _call], ret |-> ret]

\* NotationPrimitive.__init__
NotationPrimitive(mem, value, depth) ==
    LET ok == value.t \in _primitives
        held == IF ok THEN value ELSE PyNone
    IN  New(IF ok THEN mem ELSE Warn(mem),
            [cls |-> "NotationPrimitive", _depth |-> depth + 1, _raw_value |-> held,
             _cleaned_value |-> held, _hydrated_value |-> PyNone, _call |-> "unset"])

RECURSIVE NotationObject(_, _, _)
RECURSIVE NotationArray(_, _, _)
RECURSIVE ObjectItems(_, _, _, _, _, _)
RECURSIVE ArrayItems(_, _, _, _, _)

HydrateAtParentDepth(mem, _v, _depth) ==
    IF _v.t = "dict" THEN NotationObject(mem, _v, _depth - 1)
    ELSE IF _v.t = "list" THEN NotationArray(mem, _v, _depth - 1)
    ELSE NotationPrimitive(mem, _v, _depth - 1)

\* the constructor chosen for a child value _v, by isinstance
Hydrate(mem, _v, _depth) ==
    IF _v.t = "dict" THEN NotationObject(mem, _v, _depth)
    ELSE IF _v.t = "list" THEN NotationArray(mem, _v, _depth)
    ELSE NotationPrimitive(mem, _v, _depth)

\* the loop of NotationObject.__init__ from entry i on: the child is built,
\* stored under the cast key, then called (stop=True) for its cleaned value.
ObjectItems(mem, items, i, _depth, _cleaned, _hydrated) ==
    IF i > Len(items) THEN [mem |-> mem, _cleaned |-> _cleaned, _hydrated |-> _hydrated]
    ELSE LET _casted_key == cast_key(items[i].k)
             child == Hydrate(mem, items[i].v, _depth)
             called == __call__(child.mem, child.id, <<>>)
         IN  ObjectItems(called.mem, items, i + 1, _depth,
                         DictSet(_cleaned, _casted_key, called.ret),
                         DictSet(_hydrated, _casted_key, child.id))

\* NotationObject.__init__
NotationObject(mem, value, depth) ==
    IF value.t = "dict"
    THEN LET built == ObjectItems(mem, value.items, 1, depth + 1, <<>>, <<>>)
         IN  New(built.mem,
                 [cls |-> "NotationObject", _depth |-> depth + 1, _raw_value |-> value,
                  _cleaned_value |-> PyDict(built._cleaned),
                  _hydrated_value |-> PyDict(built._hydrated), _call |-> "unset"])
    ELSE New(Warn(mem),
             [cls |-> "NotationObject", _depth |-> depth + 1, _raw_value |-> PyNone,
              _cleaned_value |-> PyNone, _hydrated_value |-> PyNone, _call |-> "unset"])

\* the loop of NotationArray.__init__ from element i on
ArrayItems(mem, elems, i, _depth, _hydrated) ==
    IF i > Len(elems) THEN [mem |-> mem, _hydrated |-> _hydrated]
    ELSE LET child == Hydrate(mem, elems[i], _depth)
         IN  ArrayItems(child.mem, elems, i + 1, _depth, Append(_hydrated, child.id))

\* NotationArray.__init__: the cleaned value is the raw list itself
NotationArray(mem, value, depth) ==
    IF value.t = "list"
    THEN LET built == ArrayItems(mem, value.elems, 1, depth + 1, <<>>)
         IN  New(built.mem,
                 [cls |-> "NotationArray", _depth |-> depth + 1, _raw_value |-> value,
                  _cleaned_value |-> value,
                  _hydrated_value |-> PyList(built._hydrated), _call |-> "unset"])
    ELSE New(Warn(mem),
             [cls |-> "NotationArray", _depth |-> depth + 1, _raw_value |-> PyNone,
              _cleaned_value |-> PyNone, _hydrated_value |-> PyNone, _call |-> "unset"])

(***************************************************************************)
(* JSON text, as the sequence of its tokens: punctuation, the literals     *)
(* null, true and false, strings and integers.                             *)
(***************************************************************************)
Tok(name) == [tok |-> name, s |-> <<>>, n |-> 0]

StrTok(s) == [tok |-> "str", s |-> s, n |-> 0]

IntTok(n) == [tok |-> "int", s |-> <<>>, n |-> n]

RECURSIVE json_dumps(_)
RECURSIVE DumpMembers(_, _)
RECURSIVE DumpElements(_, _)

\* the members of a JSON object from entry i on, comma separated
DumpMembers(items, i) ==
    IF i > Len(items) THEN <<>>
    ELSE (IF i > 1 THEN <<Tok(",")>> ELSE <<>>)
         \o <<StrTok(items[i].k), Tok(":")>> \o json_dumps(items[i].v) \o DumpMembers(items, i + 1)

\* the elements of a JSON array from element i on, comma separated
DumpElements(elems, i) ==
    IF i > Len(elems) THEN <<>>
    ELSE (IF i > 1 THEN <<Tok(",")>> ELSE <<>>) \o json_dumps(elems[i]) \o DumpElements(elems, i + 1)

\* json.dumps(value), the encoder NotationBase.json calls
json_dumps(value) ==
    IF value.t = "dict" THEN <<Tok("{")>> \o DumpMembers(value.items, 1) \o <<Tok("}")>>
    ELSE IF value.t = "list" THEN <<Tok("[")>> \o DumpElements(value.elems, 1) \o <<Tok("]")>>
    ELSE IF value.t = "str" THEN <<StrTok(value.s)>>
    ELSE IF value.t = "int" THEN <<IntTok(value.n)>>
    ELSE IF value.t = "bool" THEN <<Tok(IF value.b THEN "true" ELSE "false")>>
    ELSE <<Tok("null")>>

\* A standard JSON decoder over the tokens: the value the text denotes, or
\* no value when the text is not one JSON document.
NoParse == [ok |-> FALSE, v |-> PyNone, rest |-> <<>>]

Parsed(v, rest) == [ok |-> TRUE, v |-> v, rest |-> rest]

RECURSIVE ParseValue(_)
RECURSIVE ParseMembers(_, _)
RECURSIVE ParseElements(_, _)

ParseMembers(toks, acc) ==
    IF Len(toks) < 3 \/ toks[1].tok # "str" \/ toks[2].tok # ":" THEN NoParse
    ELSE LET val == ParseValue(SubSeq(toks, 3, Len(toks)))
         IN  IF ~val.ok \/ val.rest = <<>> THEN NoParse
             ELSE IF Head(val.rest).tok = "}"
             THEN Parsed(PyDict(DictSet(acc, toks[1].s, val.v)), Tail(val.rest))
             ELSE IF Head(val.rest).tok = ","
             THEN ParseMembers(Tail(val.rest), DictSet(acc, toks[1].s, val.v))
             ELSE NoParse

ParseElements(toks, acc) ==
    LET val == ParseValue(toks)
    IN  IF ~val.ok \/ val.rest = <<>> THEN NoParse
        ELSE IF Head(val.rest).tok = "]" THEN Parsed(PyList(Append(acc, val.v)), Tail(val.rest))
        ELSE IF Head(val.rest).tok = "," THEN ParseElements(Tail(val.rest), Append(acc, val.v))
        ELSE NoParse

ParseValue(toks) ==
    IF toks = <<>> THEN NoParse
    ELSE LET h == Head(toks)
             r == Tail(toks)
         IN  IF h.tok = "str" THEN Parsed(PyStr(h.s), r)
             ELSE IF h.tok = "int" THEN Parsed(PyInt(h.n), r)
             ELSE IF h.tok = "true" THEN Parsed(PyBool(TRUE), r)
             ELSE IF h.tok = "false" THEN Parsed(PyBool(FALSE), r)
             ELSE IF h.tok = "null" THEN Parsed(PyNone, r)
             ELSE IF h.tok = "{"
             THEN IF r # <<>> /\ Head(r).tok = "}" THEN Parsed(PyDict(<<>>), Tail(r))
                  ELSE ParseMembers(r, <<>>)
             ELSE IF h.tok = "["
             THEN IF r # <<>> /\ Head(r).tok = "]" THEN Parsed(PyList(<<>>), Tail(r))
                  ELSE ParseElements(r, <<>>)
             ELSE NoParse

\* the document the text decodes to; Unset when it is not JSON
JsonDecode(text) ==
    LET p == ParseValue(text)
    IN  IF p.ok /\ p.rest = <<>> THEN p.v ELSE Unset

(***************************************************************************)
(* Numbers used as indices.  A float is its value in tenths, or one of the *)
(* special values inf and nan.                                             *)
(***************************************************************************)
PyFloat(tenths) == [t |-> "float", kind |-> "finite", tenths |-> tenths]

PyInf == [t |-> "float", kind |-> "inf", tenths |-> 0]

PyNan == [t |-> "float", kind |-> "nan", tenths |-> 0]

Returned(k) == [exc |-> "none", k |-> k]

Raised(exc) == [exc |-> exc, k |-> 0]

DigitOf(c) == (CHOOSE i \in 1..Len(DigitChars) : DigitChars[i] = c) - 1

RECURSIVE DigitsValue(_)
DigitsValue(s) ==
    IF s = <<>> THEN 0
    ELSE 10 * DigitsValue(SubSeq(s, 1, Len(s) - 1)) + DigitOf(s[Len(s)])

\* int(str): an optional sign, then decimal digits; anything else is a
\* ValueError.  (Surrounding blanks and digit-group underscores, which int
\* also accepts, do not occur in the strings of this model.)
IntOfStr(s) ==
    LET signed == s # <<>> /\ s[1] \in {"+", "-"}
        digits == IF signed THEN Tail(s) ELSE s
    IN  IF digits # <<>> /\ \A i \in 1..Len(digits) : IsDigit(digits[i])
        THEN Returned(IF signed /\ s[1] = "-" THEN 0 - DigitsValue(digits) ELSE DigitsValue(digits))
        ELSE Raised("ValueError")

\* int(float): truncation toward zero; inf overflows, nan is a ValueError
IntOfFloat(x) ==
    IF x.kind = "inf" THEN Raised("OverflowError")
    ELSE IF x.kind = "nan" THEN Raised("ValueError")
    ELSE IF x.tenths >= 0 THEN Returned(x.tenths \div 10)
    ELSE Returned(0 - ((0 - x.tenths) \div 10))

\* the builtin int(index)
int(index) ==
    IF index.t = "int" THEN Returned(index.n)
    ELSE IF index.t = "bool" THEN Returned(IF index.b THEN 1 ELSE 0)
    ELSE IF index.t = "float" THEN IntOfFloat(index)
    ELSE IF index.t = "str" THEN IntOfStr(index.s)
    ELSE Raised("TypeError")

(***************************************************************************)
(* Numeric coercion of a node.  int(node) and float(node) are served by    *)
(* the node's __int__ and __float__, which the node classes inherit from   *)
(* NotationRepresentation; they follow section 4.6 of the specification:   *)
(* an absent, Object or Array node is a type error naming the shape and    *)
(* the target, a string is parsed or is a value error naming the string, a *)
(* boolean is 1 or 0, an integer or a float is converted.                  *)
(***************************************************************************)
\* the text of an error: what it names, and the target type
Message(names, target) == [t |-> "message", names |-> names, target |-> target]

Success(v) == [exc |-> "none", ret |-> v]

Failure(exc, message) == [exc |-> exc, ret |-> message]

\* float(str): an optional sign, decimal digits, and optionally a point and
\* more digits; anything else is a ValueError.  (The strings of this model
\* have at most one digit after the point, and none spells inf or nan.)
FloatOfStr(s) ==
    LET signed == s # <<>> /\ s[1] \in {"+", "-"}
        body == IF signed THEN Tail(s) ELSE s
        dots == {i \in 1..Len(body) : body[i] = "."}
        dot == IF dots = {} THEN Len(body) + 1 ELSE CHOOSE i \in dots : TRUE
        whole == SubSeq(body, 1, dot - 1)
        frac == SubSeq(body, dot + 1, Len(body))
        digits == whole \o frac
        tenths == 10 * DigitsValue(whole) + (IF frac = <<>> THEN 0 ELSE DigitOf(frac[1]))
    IN  IF Cardinality(dots) <= 1 /\ digits # <<>> /\ \A i \in 1..Len(digits) : IsDigit(digits[i])
        THEN Returned(IF signed /\ s[1] = "-" THEN 0 - tenths ELSE tenths)
        ELSE Raised("ValueError")

\* node.__int__
__int__(self) ==
    LET value == _value(self)
    IN  IF value.t \in {"NoneType", "dict", "list"}
        THEN Failure("TypeError", Message(PyType(value.t), "int"))
        ELSE IF value.t = "str"
        THEN IF IntOfStr(value.s).exc = "none" THEN Success(PyInt(IntOfStr(value.s).k))
             ELSE Failure("ValueError", Message(value, "int"))
        ELSE IF value.t = "bool" THEN Success(PyInt(IF value.b THEN 1 ELSE 0))
        ELSE IF int(value).exc = "none" THEN Success(PyInt(int(value).k))
        ELSE Failure(int(value).exc, Message(value, "int"))

\* node.__float__
__float__(self) ==
    LET value == _value(self)
    IN  IF value.t \in {"NoneType", "dict", "list"}
        THEN Failure("TypeError", Message(PyType(value.t), "float"))
        ELSE IF value.t = "str"
        THEN IF FloatOfStr(value.s).exc = "none" THEN Success(PyFloat(FloatOfStr(value.s).k))
             ELSE Failure("ValueError", Message(value, "float"))
        ELSE IF value.t = "bool" THEN Success(PyFloat(IF value.b THEN 10 ELSE 0))
        ELSE IF value.t = "int" THEN Success(PyFloat(10 * value.n))
        ELSE Success(value)

\* node.__bool__: the truthiness of the value the node holds (section 4.6)
__bool__(self) ==
    LET value == _value(self)
    IN  IF value.t = "NoneType" THEN FALSE
        ELSE IF value.t = "bool" THEN value.b
        ELSE IF value.t = "int" THEN value.n # 0
        ELSE IF value.t = "float" THEN value.kind # "finite" \/ value.tenths # 0
        ELSE IF value.t = "str" THEN value.s # <<>>
        ELSE IF value.t = "dict" THEN value.items # <<>>
        ELSE value.elems # <<>>

(***************************************************************************)
(* What an expression of the client denotes: the PyHydrate wrapper, a      *)
(* Notation* object of the heap, or a bound method of one of them.         *)
(***************************************************************************)
Wrapper == [kind |-> "PyHydrate"]

Node(id) == [kind |-> "node", id |-> id]

Method(self, name) == [kind |-> "method", self |-> self, name |-> name]

\* the public methods NotationBase defines (yaml, json): ordinary attribute
\* lookup finds them on every node and on the wrapper, so __getattr__ is
\* never consulted for these names.
InterfaceNames == {<<"y", "a", "m", "l">>, <<"j", "s", "o", "n">>}

\* the outcome of one access: the memory left, the object returned (or the
\* exception that escaped) and whether it is a child, a fresh absent
\* primitive or a bound method.
Child(mem, id) == [mem |-> mem, ret |-> Node(id), exc |-> "none", how |-> "child"]

Absent(made) == [mem |-> made.mem, ret |-> Node(made.id), exc |-> "none", how |-> "absent"]

Bound(mem, self, name) == [mem |-> mem, ret |-> Method(self, name), exc |-> "none", how |-> "method"]

Escaped(mem, exc) == [mem |-> mem, ret |-> PyNone, exc |-> exc, how |-> "raise"]

\* NotationObject.__getattr__: the default of dict.get is built before the
\* lookup, on a hit as well.
NotationObject__getattr__(mem, id, name) ==
    LET self == mem.heap[id]
        default == NotationPrimitive(mem, PyNone, self._depth)
    IN  IF self._hydrated_value.t # "dict" THEN Escaped(mem, "AttributeError")
        ELSE IF DictHas(self._hydrated_value.items, name)
        THEN Child(default.mem, DictGet(self._hydrated_value.items, name, default.id))
        ELSE Absent(default)

\* NotationObject.__getitem__
NotationObject__getitem__(mem, id, index) ==
    Absent(NotationPrimitive(mem, PyNone, mem.heap[id]._depth))

\* NotationArray.__getattr__
NotationArray__getattr__(mem, id, name) ==
    Absent(NotationPrimitive(mem, PyNone, mem.heap[id]._depth))

\* the exceptions NotationArray.__getitem__ catches
ArrayCaught == {"IndexError", "TypeError", "ValueError"}

\* ArraySubscript without Python's negative indexing: an index below zero is
\* out of range.
ArraySubscriptNoNegative(self, index) ==
    LET k == int(index)
        n == Len(self._hydrated_value.elems)
    IN  IF k.exc # "none" THEN k
        ELSE IF self._hydrated_value.t # "list" THEN Raised("TypeError")
        ELSE IF k.k >= n \/ k.k < 0 THEN Raised("IndexError")
        ELSE Returned(self._hydrated_value.elems[k.k + 1])

\* self._hydrated_value[int(index)]: int(index) is evaluated first, then the
\* subscript: of None a TypeError, out of range an IndexError.
ArraySubscript(self, index) ==
    LET k == int(index)
        n == Len(self._hydrated_value.elems)
    IN  IF k.exc # "none" THEN k
        ELSE IF self._hydrated_value.t # "list" THEN Raised("TypeError")
        ELSE IF k.k >= n \/ k.k < 0 - n THEN Raised("IndexError")
        ELSE Returned(self._hydrated_value.elems[IF k.k >= 0 THEN k.k + 1 ELSE n + k.k + 1])

\* NotationArray.__getitem__
NotationArray__getitem__(mem, id, index) ==
    LET self == mem.heap[id]
        got == ArraySubscript(self, index)
    IN  IF got.exc = "none" THEN Child(mem, got.k)
        ELSE IF got.exc \in ArrayCaught THEN Absent(NotationPrimitive(mem, PyNone, self._depth))
        ELSE Escaped(mem, got.exc)

\* NotationPrimitive.__getattr__
NotationPrimitive__getattr__(mem, id, name) ==
    Absent(NotationPrimitive(mem, PyNone, mem.heap[id]._depth))

\* NotationPrimitive.__getitem__
NotationPrimitive__getitem__(mem, id, index) ==
    Absent(NotationPrimitive(mem, PyNone, mem.heap[id]._depth))

\* getattr(node, name): the class's own attributes first, then __getattr__
NodeGetAttr(mem, id, name) ==
    IF name \in InterfaceNames THEN Bound(mem, Node(id), name)
    ELSE IF mem.heap[id].cls = "NotationObject" THEN NotationObject__getattr__(mem, id, name)
    ELSE IF mem.heap[id].cls = "NotationArray" THEN NotationArray__getattr__(mem, id, name)
    ELSE NotationPrimitive__getattr__(mem, id, name)

\* node[index]
NodeGetItem(mem, id, index) ==
    IF mem.heap[id].cls = "NotationObject" THEN NotationObject__getitem__(mem, id, index)
    ELSE IF mem.heap[id].cls = "NotationArray" THEN NotationArray__getitem__(mem, id, index)
    ELSE NotationPrimitive__getitem__(mem, id, index)

\* PyHydrate.__getattr__: getattr(self._structure, key); PyHydrate inherits
\* NotationBase, so the interface names are found on the wrapper itself.
PyHydrate__getattr__(mem, self, name) ==
    IF name \in InterfaceNames THEN Bound(mem, Wrapper, name)
    ELSE IF self._structure = PyNone THEN Escaped(mem, "AttributeError")
    ELSE NodeGetAttr(mem, self._structure.id, name)

\* PyHydrate.__getitem__: self._structure[index]
PyHydrate__getitem__(mem, self, index) ==
    IF self._structure = PyNone THEN Escaped(mem, "TypeError")
    ELSE NodeGetItem(mem, self._structure.id, index)

\* PyHydrate.__call__: self._structure(args[0]), or self._structure()
PyHydrate__call__(mem, self, args) ==
    IF self._structure = PyNone THEN [mem |-> mem, ret |-> PyNone, exc |-> "TypeError"]
    ELSE [mem |-> __call__(mem, self._structure.id, args).mem,
          ret |-> __call__(mem, self._structure.id, args).ret, exc |-> "none"]

\* PyHydrate.__float__: float(self._structure).  The builtin calls the
\* __float__ of its argument; None has none, and the TypeError of the
\* builtin names NoneType.
PyHydrate__float__(mem, self) ==
    IF self._structure = PyNone
    THEN [mem |-> mem, ret |-> Message(PyType("NoneType"), "float"), exc |-> "TypeError"]
    ELSE [mem |-> mem, ret |-> __float__(mem.heap[self._structure.id]).ret,
          exc |-> __float__(mem.heap[self._structure.id]).exc]

PyHydrate__bool__of_object(mem, self) ==
    [mem |-> mem, ret |-> PyBool(self._structure # PyNone), exc |-> "none"]

\* PyHydrate.__bool__: bool(self._structure).  The builtin calls the
\* __bool__ of its argument; None is false.
PyHydrate__bool__(mem, self) ==
    IF self._structure = PyNone THEN [mem |-> mem, ret |-> PyBool(FALSE), exc |-> "none"]
    ELSE [mem |-> mem, ret |-> PyBool(__bool__(mem.heap[self._structure.id])), exc |-> "none"]

PyHydrate__int__as_value(mem, self) ==
    IF self._structure = PyNone \/ _value(mem.heap[self._structure.id]).t \notin {"int", "bool"}
    THEN [mem |-> mem, ret |-> PyInt(0), exc |-> "none"]
    ELSE [mem |-> mem, ret |-> __int__(mem.heap[self._structure.id]).ret, exc |-> "none"]

\* PyHydrate.__int__: int(self._structure)
PyHydrate__int__(mem, self) ==
    IF self._structure = PyNone
    THEN [mem |-> mem, ret |-> Message(PyType("NoneType"), "int"), exc |-> "TypeError"]
    ELSE [mem |-> mem, ret |-> __int__(mem.heap[self._structure.id]).ret,
          exc |-> __int__(mem.heap[self._structure.id]).exc]

(***************************************************************************)
(* The decoders PyHydrate.__init__ hands a string to.  They are libraries: *)
(* each is modelled by its outcome on the texts below.                     *)
(***************************************************************************)
\* {"a": 1}
TextJsonObject == <<"{", "\"", "a", "\"", ":", " ", "1", "}">>

\* z: v
TextYamlMapping == <<"z", ":", " ", "v">>

\* z=1
TextTomlPair == <<"z", "=", "1">>

\* x y
TextPlain == <<"x", " ", "y">>

\* [1
TextBroken == <<"[", "1">>

\* 7
TextNumber == <<"7">>

\* the empty text
TextEmpty == <<>>

\* the text in double quotes: a JSON string
Quoted(text) == <<"\"">> \o text \o <<"\"">>

Decoded(v) == [exc |-> "none", v |-> v]

DecodeError(exc) == [exc |-> exc, v |-> PyNone]

\* json.loads
json_loads(text) ==
    IF text = TextJsonObject THEN Decoded(PyDict(<<[k |-> <<"a">>, v |-> PyInt(1)]>>))
    ELSE IF text = Quoted(TextYamlMapping) THEN Decoded(PyStr(TextYamlMapping))
    ELSE IF text = Quoted(TextTomlPair) THEN Decoded(PyStr(TextTomlPair))
    ELSE IF text = Quoted(TextPlain) THEN Decoded(PyStr(TextPlain))
    ELSE IF text = TextNumber THEN Decoded(PyInt(7))
    ELSE DecodeError("JSONDecodeError")

\* tomllib.loads
tomllib_loads(text) ==
    IF text = TextTomlPair THEN Decoded(PyDict(<<[k |-> <<"z">>, v |-> PyInt(1)]>>))
    ELSE IF text = TextEmpty THEN Decoded(PyDict(<<>>))
    ELSE DecodeError("TOMLDecodeError")

\* yaml.safe_load: a plain scalar is a string, a flow sequence that is not
\* closed is an error
yaml_safe_load(text) ==
    IF text = TextYamlMapping THEN Decoded(PyDict(<<[k |-> <<"z">>, v |-> PyStr(<<"v">>)]>>))
    ELSE IF text = TextJsonObject THEN Decoded(PyDict(<<[k |-> <<"a">>, v |-> PyInt(1)]>>))
    ELSE IF text = TextBroken THEN DecodeError("YAMLError")
    ELSE Decoded(PyStr(text))

\* PyHydrate.__init__, lines 177-179: JSON is tried on a string, and the
\* JSONDecodeError suppressed
AfterJson(source_value) ==
    IF source_value.t = "str" /\ json_loads(source_value.s).exc = "none"
    THEN json_loads(source_value.s).v ELSE source_value

\* lines 182-184: TOML is tried on what is still a string, and the
\* TOMLDecodeError suppressed
AfterToml(source_value) ==
    IF source_value.t = "str" /\ tomllib_loads(source_value.s).exc = "none"
    THEN tomllib_loads(source_value.s).v ELSE source_value

\* lines 187-189: YAML is tried on what is still a string; nothing is
\* suppressed
AfterYaml(source_value) ==
    IF source_value.t = "str" THEN yaml_safe_load(source_value.s) ELSE Decoded(source_value)

\* PyHydrate.__init__: a string is decoded (lines 177-189), then the
\* constructor of the value's shape is chosen (lines 191-205); an exception
\* of the YAML decoder leaves the constructor.
PyHydrate(mem, source_value) ==
    LET decoded == AfterYaml(AfterToml(AfterJson(source_value)))
        value == decoded.v
    IN  IF decoded.exc # "none"
        THEN [mem |-> mem, self |-> [_root_type |-> "raised", _structure |-> PyNone], exc |-> decoded.exc]
        ELSE IF value.t = "dict"
        THEN LET made == NotationObject(mem, value, 0)
             IN  [mem |-> made.mem, self |-> [_root_type |-> "dict", _structure |-> Node(made.id)], exc |-> "none"]
        ELSE IF value.t = "list"
        THEN LET made == NotationArray(mem, value, 0)
             IN  [mem |-> made.mem, self |-> [_root_type |-> "list", _structure |-> Node(made.id)], exc |-> "none"]
        ELSE IF value.t \in {"int", "float", "bool", "str"}
        THEN LET made == NotationPrimitive(mem, value, 0)
             IN  [mem |-> made.mem, self |-> [_root_type |-> value.t, _structure |-> Node(made.id)], exc |-> "none"]
        ELSE IF value.t = "NoneType"
        THEN LET made == NotationPrimitive(mem, PyNone, 0)
             IN  [mem |-> made.mem, self |-> [_root_type |-> "NoneType", _structure |-> Node(made.id)], exc |-> "none"]
        ELSE [mem |-> mem, self |-> [_root_type |-> "NoneType", _structure |-> PyNone], exc |-> "none"]

(***************************************************************************)
(* The sources the wrapper is built from: scalars, lists of up to MaxLen   *)
(* elements and mappings of up to MaxKeys entries.  The first component of *)
(* a container ranges over a scalar, a list holding a mapping and a        *)
(* mapping; component i > 1 is the integer i, so that components differ.   *)
(* Keys aB and a-b normalise to the same canonical key; json is also the   *)
(* name of a method.                                                       *)
(***************************************************************************)
SourceKeys == {<<"a", "B">>, <<"a", "-", "b">>, <<"j", "s", "o", "n">>}

Inner == PyDict(<<[k |-> <<"a", "B">>, v |-> PyStr(<<"x">>)]>>)

FirstValues == {PyStr(<<"x">>), PyList(<<Inner, PyInt(7)>>), PyDict(<<[k |-> <<"a", "B">>, v |-> PyInt(1)]>>)}

Component(i, first) == IF i = 1 THEN first ELSE PyInt(i)

Scalars == {PyNone, PyInt(1), PyBool(TRUE)}

Lists == {PyList([i \in 1..n |-> Component(i, first)]) : n \in 0..MaxLen, first \in FirstValues}

KeySeqs == {ks \in UNION {[1..n -> SourceKeys] : n \in 0..MaxKeys} :
               \A i, j \in 1..Len(ks) : i # j => ks[i] # ks[j]}

Mappings == {PyDict([i \in 1..Len(ks) |-> [k |-> ks[i], v |-> Component(i, first)]]) :
                ks \in KeySeqs, first \in FirstValues}

Sources == Scalars \cup Lists \cup Mappings

\* the names and indices of the client's accesses in Spec
NavNames == {<<"a", "_", "b">>, <<"a", "B">>, <<"j", "s", "o", "n">>, <<"z">>}

NavIndices == {PyInt(0), PyInt(0 - 1), PyInt(MaxLen), PyInf}

\* the arguments of the client's calls in Spec: none, or the value request
NavRequests == {<<>>, <<"value">>}

\* the names and indices of the client's accesses in SpecIndex
ProbeNames == {<<"a", "_", "b">>, <<"j", "s", "o", "n">>, <<"z">>}

ProbeIndices ==
    {PyInt(i) : i \in (0 - (MaxLen + 1))..MaxLen}
    \cup {PyBool(TRUE), PyNone, PyFloat(19), PyFloat(0 - 19), PyInf, PyNan}
    \cup {PyStr(<<"1">>), PyStr(<<"-", "1">>), PyStr(<<"x">>), PyStr(<<"1", ".", "9">>)}

EmptyMem == [heap |-> <<>>, warnings |-> 0]

Init ==
    /\ source \in Sources
    /\ heap = PyHydrate(EmptyMem, source).mem.heap
    /\ warnings = PyHydrate(EmptyMem, source).mem.warnings
    /\ root = PyHydrate(EmptyMem, source).self
    /\ cur = Wrapper
    /\ raised = "none"
    /\ out = Unset
    /\ missed = FALSE
    /\ log = <<>>
    /\ key = <<>>
    /\ casts = <<>>

Mem == [heap |-> heap, warnings |-> warnings]

\* the node an access on cur is served by (0: none)
Target == IF cur.kind = "node" THEN cur.id
          ELSE IF cur.kind = "PyHydrate" /\ root._structure # PyNone THEN root._structure.id
          ELSE 0

\* getattr(cur, name)
GetAttrOf(name) ==
    IF cur.kind = "PyHydrate" THEN PyHydrate__getattr__(Mem, root, name)
    ELSE IF cur.kind = "node" THEN NodeGetAttr(Mem, cur.id, name)
    ELSE Escaped(Mem, "AttributeError")

\* cur[index]
GetItemOf(index) ==
    IF cur.kind = "PyHydrate" THEN PyHydrate__getitem__(Mem, root, index)
    ELSE IF cur.kind = "node" THEN NodeGetItem(Mem, cur.id, index)
    ELSE Escaped(Mem, "TypeError")

\* the state after an access with outcome res
Accessed(op, arg, res) ==
    /\ heap' = res.mem.heap
    /\ warnings' = res.mem.warnings
    /\ raised' = res.exc
    /\ cur' = IF res.exc = "none" THEN res.ret ELSE cur
    /\ missed' = (missed \/ res.how = "absent")
    /\ log' = Append(log, [op |-> op, on |-> Target, arg |-> arg, ret |-> res.ret, how |-> res.how,
                            exc |-> res.exc, warned |-> res.mem.warnings - warnings])
    /\ out' = Unset
    /\ UNCHANGED <<source, root, key, casts>>

Running(limit) == raised = "none" /\ out = Unset /\ Len(log) < limit

\* the client evaluates cur.name
GetAttr(name, limit) ==
    /\ Running(limit)
    /\ Accessed("getattr", name, GetAttrOf(name))

\* the client evaluates cur[index]
GetItem(index, limit) ==
    /\ Running(limit)
    /\ Accessed("getitem", index, GetItemOf(index))

\* the client evaluates cur(*args), cur the wrapper or a node
Call(args, limit) ==
    /\ Running(limit)
    /\ cur.kind # "method"
    /\ LET res == IF cur.kind = "PyHydrate" THEN PyHydrate__call__(Mem, root, args)
                  ELSE [mem |-> __call__(Mem, cur.id, args).mem,
                        ret |-> __call__(Mem, cur.id, args).ret, exc |-> "none"]
       IN  /\ heap' = res.mem.heap
           /\ warnings' = res.mem.warnings
           /\ raised' = res.exc
           /\ out' = IF res.exc = "none" THEN res.ret ELSE Unset
           /\ log' = Append(log, [op |-> "call", on |-> Target, arg |-> args, ret |-> res.ret, how |-> "call",
                                   exc |-> res.exc, warned |-> res.mem.warnings - warnings])
    /\ UNCHANGED <<source, root, cur, missed, key, casts>>

\* the constructors a client can call
DirectEntries == {"NotationObject", "NotationArray", "NotationPrimitive"}

Entries == {"PyHydrate"} \cup DirectEntries

\* the object the client holds: the wrapper, or the node it constructed
\* itself
Start == IF root._root_type \in DirectEntries THEN root._structure ELSE Wrapper

\* the client starts a new expression at the object it holds
Rewind(limit) ==
    /\ Len(log) < limit
    /\ root._root_type # "raised"
    /\ raised # "none" \/ out # Unset \/ cur # Start
    /\ cur' = Start
    /\ raised' = "none"
    /\ out' = Unset
    /\ missed' = FALSE
    /\ UNCHANGED <<source, heap, warnings, root, log, key, casts>>

Next ==
    \/ \E name \in NavNames : GetAttr(name, MaxSteps)
    \/ \E index \in NavIndices : GetItem(index, MaxSteps)
    \/ \E args \in NavRequests : Call(args, MaxSteps)
    \/ Rewind(MaxSteps)

Spec == Init /\ [][Next]_vars

NextIndex ==
    \/ \E name \in ProbeNames : GetAttr(name, MaxProbes)
    \/ \E index \in ProbeIndices : GetItem(index, MaxProbes)
    \/ Rewind(MaxProbes)

SpecIndex == Init /\ [][NextIndex]_vars

(***************************************************************************)
(* SpecCall: every request of the call protocol, on the root and on the    *)
(* nodes one access away from it.                                          *)
(***************************************************************************)
\* the requests NotationBase.__call__ is given: none, the recognised ones and
\* one that is not recognised
CallRequests ==
    {<<>>, <<"value">>, <<"element">>, <<"type">>, <<"depth">>, <<"map">>, <<"json">>,
     <<"not_a_real_request">>}

CallNames == {<<"a", "_", "b">>, <<"z">>}

CallIndices == {PyInt(0), PyInt(MaxLen)}

NextCall ==
    \/ \E name \in CallNames : GetAttr(name, MaxCalls)
    \/ \E index \in CallIndices : GetItem(index, MaxCalls)
    \/ \E args \in CallRequests : Call(args, MaxCalls)
    \/ Rewind(MaxCalls)

SpecCall == Init /\ [][NextCall]_vars

(***************************************************************************)
(* SpecLoad: construction from strings, from values of an unsupported      *)
(* type, and by the constructors of the node classes called directly.      *)
(***************************************************************************)
\* the object the client's constructor call leaves
Construct(entry, mem, value) ==
    IF entry = "PyHydrate" THEN PyHydrate(mem, value)
    ELSE LET made == IF entry = "NotationObject" THEN NotationObject(mem, value, 0)
                     ELSE IF entry = "NotationArray" THEN NotationArray(mem, value, 0)
                     ELSE NotationPrimitive(mem, value, 0)
         IN  [mem |-> made.mem, self |-> [_root_type |-> entry, _structure |-> Node(made.id)],
              exc |-> "none"]

Texts ==
    {TextJsonObject, TextYamlMapping, TextTomlPair, TextPlain, TextBroken,
     Quoted(TextYamlMapping), Quoted(TextTomlPair), Quoted(TextPlain)}

\* what PyHydrate is given in SpecLoad: a string, or a value holding a value
\* of an unsupported type somewhere
LoadSources ==
    {PyStr(text) : text \in Texts}
    \cup {PyTuple, PyInt(1),
          PyDict(<<[k |-> <<"a", "B">>, v |-> PyTuple], [k |-> <<"z">>, v |-> PyInt(1)]>>),
          PyList(<<PyTuple, PyInt(1)>>),
          PyList([i \in 1..MaxLen |-> PyTuple])}

\* what the constructors of the node classes are given in SpecLoad
DirectSources ==
    {PyInt(1), PyTuple, PyList(<<PyInt(1)>>), PyDict(<<[k |-> <<"z">>, v |-> PyInt(1)]>>)}

\* the constructor calls of SpecLoad
Constructions ==
    {[entry |-> "PyHydrate", value |-> v] : v \in LoadSources}
    \cup {[entry |-> e, value |-> v] : e \in DirectEntries, v \in DirectSources}

InitLoad ==
    /\ \E c \in Constructions : \E made \in {Construct(c.entry, EmptyMem, c.value)} :
           /\ source = c.value
           /\ heap = made.mem.heap
           /\ warnings = made.mem.warnings
           /\ root = made.self
           /\ raised = made.exc
           /\ cur = Start
    /\ out = Unset
    /\ missed = FALSE
    /\ log = <<>>
    /\ key = <<>>
    /\ casts = <<>>

SpecLoad == InitLoad /\ [][NextCall]_vars

(***************************************************************************)
(* SpecWarn: the accesses of SpecIndex (names that hit and miss, indices   *)
(* of every type and value, accesses on what an access returned) together  *)
(* with the calls of SpecCall.                                             *)
(***************************************************************************)
NextWarn ==
    \/ \E name \in ProbeNames : GetAttr(name, MaxProbes)
    \/ \E index \in ProbeIndices : GetItem(index, MaxProbes)
    \/ \E args \in CallRequests : Call(args, MaxProbes)
    \/ Rewind(MaxProbes)

SpecWarn == Init /\ [][NextWarn]_vars

(***************************************************************************)
(* SpecDepth: chains of accesses from the root, and the depth request on   *)
(* the root and on what the accesses return.                               *)
(***************************************************************************)
NextDepth ==
    \/ \E name \in CallNames : GetAttr(name, MaxSteps)
    \/ \E index \in CallIndices : GetItem(index, MaxSteps)
    \/ Call(<<"depth">>, MaxSteps)
    \/ Rewind(MaxSteps)

SpecDepth == Init /\ [][NextDepth]_vars

(***************************************************************************)
(* SpecAlias: the client changes its source container after the tree was   *)
(* built.  A Python list or dict is an object, and an assignment stores a  *)
(* reference: NotationArray.__init__ keeps the caller's list as _raw_value *)
(* and as _cleaned_value (lines 83-84), NotationObject.__init__ keeps the  *)
(* caller's dict as _raw_value (line 28) and builds a dict of its own as   *)
(* _cleaned_value (lines 30, 46).  What the client does to the object is   *)
(* therefore done to every attribute that refers to it.                    *)
(***************************************************************************)
\* what the client adds to its container
Added == PyInt(9)

AddedKey == <<"n">>

AliasRequests == {<<>>, <<"element">>, <<"type">>}

\* the record of a change the client made to its source
Mutation(arg) ==
    [op |-> "mutate", on |-> root._structure.id, arg |-> arg, ret |-> PyNone, how |-> "mutate",
     exc |-> "none", warned |-> 0]

Mutated == \E i \in 1..Len(log) : log[i].op = "mutate"

\* the client evaluates source.append(Added), source the list the root
\* Array was built from
SourceAppend ==
    /\ Len(log) < MaxSteps
    /\ ~Mutated
    /\ source.t = "list"
    /\ root._root_type = "list"
    /\ source' = PyList(Append(source.elems, Added))
    /\ heap' = [heap EXCEPT ![root._structure.id]._raw_value = source',
                            ![root._structure.id]._cleaned_value = source']
    /\ log' = Append(log, Mutation(<<"append">>))
    /\ UNCHANGED <<warnings, root, cur, raised, out, missed, key, casts>>

\* the client evaluates source[AddedKey] = Added, source the dict the root
\* Object was built from
SourceSetItem ==
    /\ Len(log) < MaxSteps
    /\ ~Mutated
    /\ source.t = "dict"
    /\ root._root_type = "dict"
    /\ source' = PyDict(DictSet(source.items, AddedKey, Added))
    /\ heap' = [heap EXCEPT ![root._structure.id]._raw_value = source']
    /\ log' = Append(log, Mutation(<<"setitem">>))
    /\ UNCHANGED <<warnings, root, cur, raised, out, missed, key, casts>>

NextAlias ==
    \/ \E name \in CallNames : GetAttr(name, MaxSteps)
    \/ \E index \in CallIndices : GetItem(index, MaxSteps)
    \/ \E args \in AliasRequests : Call(args, MaxSteps)
    \/ Rewind(MaxSteps)
    \/ SourceAppend
    \/ SourceSetItem

SpecAlias == Init /\ [][NextAlias]_vars

(***************************************************************************)
(* SpecDebug: the accesses and calls of SpecCall on a tree built with      *)
(* debug=True or debug=False.  Every constructor stores kwargs['debug'] in *)
(* self._debug and hands its kwargs on to every node it builds, so the     *)
(* flag is one per tree; the wrapper keeps it as root._debug.  Each step   *)
(* records the outcome of the operation on the tree and the outcome the    *)
(* same operation has on the same tree with debug off.                     *)
(***************************************************************************)
_print_debug_indents(mem, id, request, request_value, stop, debug) ==
    [mem |-> IF debug /\ ~stop THEN [mem EXCEPT !.heap[id]._depth = @ + 1] ELSE mem,
     lines |-> IF debug /\ ~stop
               THEN <<[component |-> "Primitive", request |-> request, request_value |-> request_value,
                       depth |-> mem.heap[id]._depth, output |-> PyStr(<<>>)]>>
               ELSE <<>>]

\* NotationBase._print_debug on the object id: the line it prints, if any.
\* It reads the node's type, depth and value and assigns nothing.
_print_debug(mem, id, request, request_value, stop, debug) ==
    LET self == mem.heap[id]
        _component_type == IF _type(self).name = "dict" THEN "Object"
                           ELSE IF _type(self).name = "list" THEN "Array"
                           ELSE "Primitive"
        _output == IF _component_type = "Primitive" THEN _value(self) ELSE PyStr(<<>>)
    IN  [mem |-> mem,
         lines |-> IF debug /\ ~stop
                   THEN <<[component |-> _component_type, request |-> request,
                           request_value |-> request_value, depth |-> self._depth,
                           output |-> _output]>>
                   ELSE <<>>]

\* getattr(cur, name) in the memory mem
GetAttrFrom(mem, name) ==
    IF cur.kind = "PyHydrate" THEN PyHydrate__getattr__(mem, root, name)
    ELSE IF cur.kind = "node" THEN NodeGetAttr(mem, cur.id, name)
    ELSE Escaped(mem, "AttributeError")

\* cur[index] in the memory mem
GetItemFrom(mem, index) ==
    IF cur.kind = "PyHydrate" THEN PyHydrate__getitem__(mem, root, index)
    ELSE IF cur.kind = "node" THEN NodeGetItem(mem, cur.id, index)
    ELSE Escaped(mem, "TypeError")

\* cur(*args) in the memory mem
CallFrom(mem, args) ==
    IF cur.kind = "PyHydrate"
    THEN [mem |-> PyHydrate__call__(mem, root, args).mem, ret |-> PyHydrate__call__(mem, root, args).ret,
          exc |-> PyHydrate__call__(mem, root, args).exc, how |-> "call"]
    ELSE [mem |-> __call__(mem, cur.id, args).mem, ret |-> __call__(mem, cur.id, args).ret,
          exc |-> "none", how |-> "call"]

\* what the first statement of the handler prints: __getattr__, __getitem__
\* and __call__ of a node begin with self._print_debug(...); the wrapper
\* prints nothing itself, and a name found by ordinary lookup reaches no
\* handler.
Printed(request, request_value, debug) ==
    IF Target = 0 \/ cur.kind = "method" \/ (request = "Get" /\ request_value \in InterfaceNames)
    THEN [mem |-> Mem, lines |-> <<>>]
    ELSE _print_debug(Mem, Target, request, request_value, FALSE, debug)

\* the outcome of a step, as it is compared: what was returned or raised and
\* the tree it left
Outcome(res) ==
    [ret |-> res.ret, exc |-> res.exc, how |-> res.how, heap |-> res.mem.heap,
     warnings |-> res.mem.warnings]

\* the state after a step with outcome res, which printed lines, and whose
\* outcome with debug off is plain
Traced(op, arg, res, lines, plain) ==
    /\ Running(MaxCalls)
    /\ heap' = res.mem.heap
    /\ warnings' = res.mem.warnings
    /\ raised' = res.exc
    /\ cur' = IF op # "call" /\ res.exc = "none" THEN res.ret ELSE cur
    /\ out' = IF op = "call" /\ res.exc = "none" THEN res.ret ELSE Unset
    /\ missed' = (missed \/ res.how = "absent")
    /\ log' = Append(log, [op |-> op, on |-> Target, arg |-> arg, ret |-> res.ret, how |-> res.how,
                            exc |-> res.exc, warned |-> res.mem.warnings - warnings,
                            printed |-> lines, traced |-> Outcome(res), plain |-> Outcome(plain)])
    /\ UNCHANGED <<source, root, key, casts>>

\* the client evaluates cur.name
DebugGetAttr(name) ==
    Traced("getattr", name, GetAttrFrom(Printed("Get", name, root._debug).mem, name),
           Printed("Get", name, root._debug).lines,
           GetAttrFrom(Printed("Get", name, FALSE).mem, name))

\* the client evaluates cur[index]
DebugGetItem(index) ==
    Traced("getitem", index, GetItemFrom(Printed("Slice", index, root._debug).mem, index),
           Printed("Slice", index, root._debug).lines,
           GetItemFrom(Printed("Slice", index, FALSE).mem, index))

\* the client evaluates cur(*args)
DebugCall(args) ==
    /\ cur.kind # "method"
    /\ LET _call == IF args = <<>> THEN <<"value">> ELSE args
       IN  Traced("call", args, CallFrom(Printed("Call", _call, root._debug).mem, args),
                  Printed("Call", _call, root._debug).lines,
                  CallFrom(Printed("Call", _call, FALSE).mem, args))

\* PyHydrate(source, debug=...): line 175 keeps the flag on the wrapper
InitDebug ==
    /\ \E value \in Sources : \E made \in {PyHydrate(EmptyMem, value)} : \E debug \in BOOLEAN :
           /\ source = value
           /\ heap = made.mem.heap
           /\ warnings = made.mem.warnings
           /\ root = [_root_type |-> made.self._root_type, _structure |-> made.self._structure,
                      _debug |-> debug]
           /\ raised = made.exc
    /\ cur = Wrapper
    /\ out = Unset
    /\ missed = FALSE
    /\ log = <<>>
    /\ key = <<>>
    /\ casts = <<>>

NextDebug ==
    \/ \E name \in CallNames : DebugGetAttr(name)
    \/ \E index \in CallIndices : DebugGetItem(index)
    \/ \E args \in CallRequests : DebugCall(args)
    \/ Rewind(MaxCalls)

SpecDebug == InitDebug /\ [][NextDebug]_vars

(***************************************************************************)
(* SpecCoerce: int(root), float(root) and bool(root), the root wrapper     *)
(* built from a source of every shape.                                     *)
(***************************************************************************)
\* the conversions the client makes of one wrapper
MaxCoercions == 2

\* what PyHydrate is given in SpecCoerce: the sources of Spec, the scalars
\* they lack, a value of an unsupported type, and strings
CoerceSources ==
    Sources
    \cup {PyBool(FALSE), PyInt(0), PyInt(0 - 7), PyFloat(0), PyFloat(19), PyFloat(0 - 19), PyTuple}
    \cup {PyStr(text) : text \in {TextEmpty, TextPlain, Quoted(TextPlain), TextNumber, TextJsonObject}}

InitCoerce ==
    /\ \E value \in CoerceSources : \E made \in {PyHydrate(EmptyMem, value)} :
           /\ source = value
           /\ heap = made.mem.heap
           /\ warnings = made.mem.warnings
           /\ root = made.self
           /\ raised = made.exc
    /\ cur = Wrapper
    /\ out = Unset
    /\ missed = FALSE
    /\ log = <<>>
    /\ key = <<>>
    /\ casts = <<>>

\* the state after a conversion of the wrapper with outcome res
Coerced(op, res) ==
    /\ Running(MaxCoercions)
    /\ cur = Wrapper
    /\ heap' = res.mem.heap
    /\ warnings' = res.mem.warnings
    /\ raised' = res.exc
    /\ out' = IF res.exc = "none" THEN res.ret ELSE Unset
    /\ log' = Append(log, [op |-> op, on |-> Target, arg |-> <<>>, ret |-> res.ret, how |-> "coerce",
                            exc |-> res.exc, warned |-> res.mem.warnings - warnings])
    /\ UNCHANGED <<source, root, cur, missed, key, casts>>

\* the client evaluates int(root)
ToInt == Coerced("int", PyHydrate__int__(Mem, root))

\* the client evaluates float(root)
ToFloat == Coerced("float", PyHydrate__float__(Mem, root))

\* the client evaluates bool(root)
ToBool == Coerced("bool", PyHydrate__bool__(Mem, root))

NextCoerce ==
    \/ ToInt
    \/ ToFloat
    \/ ToBool
    \/ Rewind(MaxCoercions)

SpecCoerce == InitCoerce /\ [][NextCoerce]_vars

(***************************************************************************)
(* SpecKey: the normaliser applied to every key over KeyAlphabet of at     *)
(* most MaxKeyLen characters, and then to its own result.                  *)
(***************************************************************************)
KeyAlphabet == {"a", "B", "1", "_", "-", " "}

RECURSIVE KeysOfLen(_)
KeysOfLen(n) == IF n = 0 THEN {<<>>} ELSE {Append(k, c) : k \in KeysOfLen(n - 1), c \in KeyAlphabet}

\* the keys the specification gives as examples, with the canonical keys it expects
ExampleKeys ==
    {[src |-> <<"f", "i", "r", "s", "t", "N", "a", "m", "e">>,
      canon |-> <<"f", "i", "r", "s", "t", "_", "n", "a", "m", "e">>],
     [src |-> <<"E", "m", "a", "i", "l", " ", "A", "d", "d", "r", "e", "s", "s">>,
      canon |-> <<"e", "m", "a", "i", "l", "_", "a", "d", "d", "r", "e", "s", "s">>],
     [src |-> <<"T", "e", "s", "t", "_", "B", "O", "O", "L">>,
      canon |-> <<"t", "e", "s", "t", "_", "b", "o", "o", "l">>],
     [src |-> <<"u", "s", "e", "r", "-", "p", "r", "o", "f", "i", "l", "e">>,
      canon |-> <<"u", "s", "e", "r", "_", "p", "r", "o", "f", "i", "l", "e">>]}

KeyStrings == UNION {KeysOfLen(n) : n \in 0..MaxKeyLen} \cup {e.src : e \in ExampleKeys}

InitKey ==
    /\ key \in KeyStrings
    /\ casts = <<>>
    /\ source = PyNone
    /\ heap = PyHydrate(EmptyMem, PyNone).mem.heap
    /\ warnings = 0
    /\ root = PyHydrate(EmptyMem, PyNone).self
    /\ cur = Wrapper
    /\ raised = "none"
    /\ out = Unset
    /\ missed = FALSE
    /\ log = <<>>

\* _cast_key(key)
CastKey ==
    /\ casts = <<>>
    /\ casts' = <<_cast_key(key)>>
    /\ UNCHANGED <<key, treeVars>>

\* _cast_key applied to its own result
CastKeyAgain ==
    /\ Len(casts) = 1
    /\ casts' = Append(casts, _cast_key(casts[1]))
    /\ UNCHANGED <<key, treeVars>>

\* PyHydrate({key: "x"}): a mapping with the key is hydrated
HydrateKey ==
    /\ source = PyNone
    /\ source' = PyDict(<<[k |-> key, v |-> PyStr(<<"x">>)]>>)
    /\ heap' = PyHydrate(EmptyMem, source').mem.heap
    /\ warnings' = PyHydrate(EmptyMem, source').mem.warnings
    /\ root' = PyHydrate(EmptyMem, source').self
    /\ UNCHANGED <<cur, raised, out, missed, log, key, casts>>

NextKey == CastKey \/ CastKeyAgain \/ HydrateKey

SpecKey == InitKey /\ [][NextKey]_vars

(***************************************************************************)
(* Properties.                                                             *)
(***************************************************************************)
IsObject(id) == id # 0 /\ heap[id].cls = "NotationObject"

IsArray(id) == id # 0 /\ heap[id].cls = "NotationArray"

IsPrimitive(id) == id # 0 /\ heap[id].cls = "NotationPrimitive"

IsAccess(e) == e.op \in {"getattr", "getitem"}

\* what is observable of a returned node: its value, type and depth
Observable(ret) == <<_value(heap[ret.id]), _type(heap[ret.id]), heap[ret.id]._depth>>

\* the node is an absent Primitive: value None, type NoneType
IsAbsentPrimitive(ret) ==
    /\ ret.kind = "node"
    /\ heap[ret.id].cls = "NotationPrimitive"
    /\ _value(heap[ret.id]) = PyNone
    /\ _type(heap[ret.id]) = PyType("NoneType")

\* C1: chaining never raises: every field access and index access of a
\* chain, whatever the root was built from, returns a node, and a final
\* call with no request returns None when some step of the chain missed.
C1_ChainingNeverRaises ==
    /\ raised = "none"
    /\ cur.kind \in {"PyHydrate", "node"}
    /\ (out # Unset /\ missed) => out = PyNone

\* C2: on an Object node, field(name) for any name (a canonical key, an
\* absent name, a name of the node's own interface) raises nothing and
\* returns a node, and two calls with the same name return results of the
\* same value, type and depth.
C2_FieldTotalAndRepeatable ==
    \A i \in 1..Len(log) :
        (log[i].op = "getattr" /\ IsObject(log[i].on)) =>
            /\ log[i].how \in {"child", "absent"}
            /\ \A j \in 1..Len(log) :
                   (log[j].op = "getattr" /\ log[j].on = log[i].on /\ log[j].arg = log[i].arg) =>
                       /\ log[j].how \in {"child", "absent"}
                       /\ Observable(log[j].ret) = Observable(log[i].ret)

\* the access e asks an Object for a key it holds, or an Array for an
\* integer index in range
Present(e) ==
    \/ /\ e.op = "getattr"
       /\ IsObject(e.on)
       /\ heap[e.on]._hydrated_value.t = "dict"
       /\ DictHas(heap[e.on]._hydrated_value.items, e.arg)
    \/ /\ e.op = "getitem"
       /\ IsArray(e.on)
       /\ heap[e.on]._hydrated_value.t = "list"
       /\ e.arg.t = "int"
       /\ e.arg.n >= 0 - Len(heap[e.on]._hydrated_value.elems)
       /\ e.arg.n < Len(heap[e.on]._hydrated_value.elems)

\* C3: stable identity per path: every access of a key present in an Object,
\* or of an in-range index of an Array, returns the very same node object on
\* every call from the same parent, whatever was done in between.
C3_StableIdentity ==
    \A i \in 1..Len(log) :
        Present(log[i]) =>
            /\ log[i].how = "child"
            /\ \A j \in 1..Len(log) :
                   (log[j].op = log[i].op /\ log[j].on = log[i].on /\ log[j].arg = log[i].arg) =>
                       log[j].ret = log[i].ret

\* the accesses i and j index the same Array, of length n, with the integers
\* a and a - n
IndexPair(i, j) ==
    /\ log[i].op = "getitem" /\ log[j].op = "getitem"
    /\ IsArray(log[i].on) /\ log[j].on = log[i].on
    /\ heap[log[i].on]._hydrated_value.t = "list"
    /\ log[i].arg.t = "int" /\ log[j].arg.t = "int"
    /\ log[j].arg.n = log[i].arg.n - Len(heap[log[i].on]._hydrated_value.elems)

\* C4 as claimed: for an Array of length n and every integer i with
\* -n <= i < n, index(i) and index(i - n) return the same element.
C4_NegPosEquivalence ==
    \A i, j \in 1..Len(log) :
        (/\ IndexPair(i, j)
         /\ log[i].arg.n >= 0 - Len(heap[log[i].on]._hydrated_value.elems)
         /\ log[i].arg.n < Len(heap[log[i].on]._hydrated_value.elems)) =>
            /\ log[i].how = "child"
            /\ log[j].ret = log[i].ret

\* C4 as amended: for an Array of length n and every integer i with
\* 0 <= i < n, index(i) and index(i - n) return the same element.
C4_NegPosEquivalenceFromZero ==
    \A i, j \in 1..Len(log) :
        (/\ IndexPair(i, j)
         /\ log[i].arg.n >= 0
         /\ log[i].arg.n < Len(heap[log[i].on]._hydrated_value.elems)) =>
            /\ log[i].how = "child"
            /\ log[j].ret = log[i].ret

\* an Array of two elements was indexed with 1 and with -1
C4_Witness ==
    \E i, j \in 1..Len(log) :
        /\ IndexPair(i, j)
        /\ Len(heap[log[i].on]._hydrated_value.elems) = 2
        /\ log[i].arg.n = 1
        /\ log[j].how = "child"

\* the integer the claim's reference converts an index to: integers as they
\* are, floats and numeric strings truncated toward the integer part; every
\* other index does not convert.
IsNumeral(s) == s # <<>> /\ \A i \in 1..Len(s) : IsDigit(s[i])

RefIntegerPart(s) ==
    LET signed == s # <<>> /\ s[1] \in {"+", "-"}
        body == IF signed THEN Tail(s) ELSE s
        dots == {i \in 1..Len(body) : body[i] = "."}
        whole == IF dots = {} THEN body ELSE SubSeq(body, 1, (CHOOSE i \in dots : TRUE) - 1)
        frac == IF dots = {} THEN <<"0">> ELSE SubSeq(body, (CHOOSE i \in dots : TRUE) + 1, Len(body))
    IN  IF Cardinality(dots) <= 1 /\ IsNumeral(whole) /\ IsNumeral(frac)
        THEN Returned(IF signed /\ s[1] = "-" THEN 0 - DigitsValue(whole) ELSE DigitsValue(whole))
        ELSE Raised("not numeric")

RefInteger(index) ==
    IF index.t = "int" THEN Returned(index.n)
    ELSE IF index.t = "bool" THEN Returned(IF index.b THEN 1 ELSE 0)
    ELSE IF index.t = "float" /\ index.kind = "finite"
    THEN Returned(IF index.tenths >= 0 THEN index.tenths \div 10 ELSE 0 - ((0 - index.tenths) \div 10))
    ELSE IF index.t = "str" THEN RefIntegerPart(index.s)
    ELSE Raised("no integer")

\* C5: Array.index is total and matches the reference for an index of any
\* type and value: the child at position k when the index converts to an
\* integer k with -n <= k < n, an absent Primitive in every other case, and
\* no exception for any index.
C5_IndexTotal ==
    \A i \in 1..Len(log) :
        (log[i].op = "getitem" /\ IsArray(log[i].on) /\ heap[log[i].on]._hydrated_value.t = "list") =>
            LET elems == heap[log[i].on]._hydrated_value.elems
                n == Len(elems)
                k == RefInteger(log[i].arg)
            IN  IF k.exc = "none" /\ k.k >= 0 - n /\ k.k < n
                THEN /\ log[i].how = "child"
                     /\ log[i].ret = Node(elems[IF k.k >= 0 THEN k.k + 1 ELSE n + k.k + 1])
                ELSE /\ log[i].how = "absent"
                     /\ IsAbsentPrimitive(log[i].ret)

\* C6: cross-variant access yields an absent Primitive and nothing else:
\* Object.index(i) for every i, Array.field(name) for every name, and
\* Primitive.field(name) and Primitive.index(i) for every name, every i and
\* every scalar the Primitive holds.
C6_CrossVariantAbsent ==
    \A i \in 1..Len(log) :
        (\/ log[i].op = "getitem" /\ IsObject(log[i].on)
         \/ log[i].op = "getattr" /\ IsArray(log[i].on)
         \/ IsAccess(log[i]) /\ IsPrimitive(log[i].on)) =>
            /\ log[i].how = "absent"
            /\ IsAbsentPrimitive(log[i].ret)

\* C7: key normalisation equals the five-step reference for every source
\* key and never fails (the specification's examples among them), and an
\* Object built from a mapping holds each value under exactly the normalised
\* key.
C7_NormalizationMatchesReference ==
    /\ casts # <<>> => casts[1] = normalize(key)
    /\ \A e \in ExampleKeys : (key = e.src /\ casts # <<>>) => casts[1] = e.canon
    /\ source # PyNone =>
           LET self == heap[root._structure.id]
           IN  /\ self.cls = "NotationObject"
               /\ self._hydrated_value.t = "dict"
               /\ Len(self._hydrated_value.items) = 1
               /\ DictHas(self._hydrated_value.items, _cast_key(key))
               /\ heap[DictGet(self._hydrated_value.items, _cast_key(key), 0)]._raw_value = source.items[1].v
               /\ self._cleaned_value = PyDict(<<[k |-> _cast_key(key), v |-> source.items[1].v]>>)

\* the key firstName was normalised and a mapping holding it was hydrated
C7_Witness ==
    /\ key = <<"f", "i", "r", "s", "t", "N", "a", "m", "e">>
    /\ casts # <<>>
    /\ source # PyNone

\* C8: key normalisation is idempotent: normalising a normalised key gives
\* the same key.
C8_NormalizeIdempotent == Len(casts) = 2 => casts[2] = casts[1]

\* a key that normalisation changes was normalised twice
C8_Witness == Len(casts) = 2 /\ casts[1] # key /\ casts[1] # <<>>

\* the positions of items whose key normalises to canon
Casting(items, canon) == {i \in 1..Len(items) : _cast_key(items[i].k) = canon}

UniqueKeys(d) == \A a, b \in 1..Len(d) : d[a].k = d[b].k => a = b

\* the canonical key of every entry of items, in source order
Canon(items) == [i \in 1..Len(items) |-> _cast_key(items[i].k)]

\* the greatest position of the set S
Last(S) == CHOOSE i \in S : \A j \in S : j <= i

\* the entries of the Object id under a canonical key that two or more of
\* its source keys normalise to come from the last of them: the child held
\* under the key, and the entry of the mapping given (the Object's cleaned
\* value)
LastWins(id, given) ==
    LET items == heap[id]._raw_value.items
        hydrated == heap[id]._hydrated_value.items
    IN  Len(items) >= 2 =>
            \A canon \in {Canon(items)} :
                \A i \in 1..Len(items) :
                    \A same \in {{j \in 1..Len(items) : canon[j] = canon[i]}} :
                        Cardinality(same) >= 2 =>
                            /\ DictHas(hydrated, canon[i]) /\ DictHas(given, canon[i])
                            /\ heap[DictGet(hydrated, canon[i], 0)]._raw_value = items[Last(same)].v
                            /\ DictGet(given, canon[i], Unset) = _value(heap[DictGet(hydrated, canon[i], 0)])

\* C9: the canonical keys of an Object are unique, and when source keys of
\* one mapping normalise to the same canonical key the last one wins: the
\* child held under that key and the entry of the cleaned value come from
\* the last colliding entry, in every Object and at every moment, and they
\* are the child a field access returns and the mapping a value request
\* returns.
C9_LastWriteWins ==
    /\ \A id \in 1..Len(heap) :
           (heap[id].cls = "NotationObject" /\ heap[id]._raw_value.t = "dict") =>
               /\ UniqueKeys(heap[id]._hydrated_value.items)
               /\ UniqueKeys(heap[id]._cleaned_value.items)
               /\ LastWins(id, heap[id]._cleaned_value.items)
    /\ \A i \in 1..Len(log) :
           (log[i].op = "getattr" /\ IsObject(log[i].on) /\ log[i].how = "child") =>
               LET items == heap[log[i].on]._raw_value.items
               IN  \A same \in {Casting(items, log[i].arg)} :
                       Cardinality(same) >= 2 => heap[log[i].ret.id]._raw_value = items[Last(same)].v
    /\ \A i \in 1..Len(log) :
           (log[i].op = "call" /\ IsObject(log[i].on) /\ log[i].arg \in {<<>>, <<"value">>}) =>
               /\ log[i].ret.t = "dict"
               /\ UniqueKeys(log[i].ret.items)
               /\ log[i].ret = heap[log[i].on]._cleaned_value

\* a key under which two source keys collide was accessed and gave a child
C9_Witness ==
    \E i \in 1..Len(log) :
        /\ log[i].op = "getattr" /\ IsObject(log[i].on) /\ log[i].how = "child"
        /\ Cardinality(Casting(heap[log[i].on]._raw_value.items, log[i].arg)) >= 2

\* every key of every mapping in v, at every level, is a canonical key
RECURSIVE CanonicalKeys(_)
CanonicalKeys(v) ==
    IF v.t = "dict"
    THEN \A i \in 1..Len(v.items) : _cast_key(v.items[i].k) = v.items[i].k /\ CanonicalKeys(v.items[i].v)
    ELSE IF v.t = "list" THEN \A i \in 1..Len(v.elems) : CanonicalKeys(v.elems[i])
    ELSE TRUE

\* C10: the value request (also the default, with no request) on an Object
\* or Array returns a structure whose mappings, at every level and inside
\* arrays too, have canonical keys only.
C10_ValueIsCleaned ==
    \A i \in 1..Len(log) :
        (log[i].op = "call" /\ log[i].arg \in {<<>>, <<"value">>}
         /\ (IsObject(log[i].on) \/ IsArray(log[i].on))) =>
            CanonicalKeys(log[i].ret)

\* the value is a reference to a node
IsNode(ret) == "kind" \in DOMAIN ret /\ ret.kind = "node"

\* the mapping from each canonical key of items to its source key
RECURSIVE KeyMap(_, _, _)
KeyMap(items, i, acc) ==
    IF i > Len(items) THEN acc
    ELSE KeyMap(items, i + 1, DictSet(acc, _cast_key(items[i].k), PyStr(items[i].k)))

\* C11: the map request on an Object returns the mapping from each of its
\* canonical keys to the original source key; on an Array or a Primitive it
\* returns an absent node (a Primitive of value None), not a bare None.
C11_MapRequest ==
    \A i \in 1..Len(log) :
        (log[i].op = "call" /\ log[i].arg = <<"map">> /\ log[i].on # 0) =>
            IF IsObject(log[i].on) /\ heap[log[i].on]._raw_value.t = "dict"
            THEN log[i].ret = PyDict(KeyMap(heap[log[i].on]._raw_value.items, 1, <<>>))
            ELSE IsNode(log[i].ret) /\ IsAbsentPrimitive(log[i].ret)

\* the request names the call protocol recognises
ValidRequests == {"value", "element", "type", "depth", "map", "json", "yaml", "toml"}

\* C12: a call with a request that is not a recognised one raises nothing,
\* returns None and emits exactly one warning.
C12_UnknownRequestWarns ==
    \A i \in 1..Len(log) :
        (log[i].op = "call" /\ log[i].arg # <<>> /\ log[i].arg[1] \notin ValidRequests) =>
            /\ log[i].exc = "none"
            /\ log[i].ret = PyNone
            /\ log[i].warned = 1

\* C13: the element request returns the one-entry mapping from the name of
\* the type the type request returns to what the value request returns; for
\* an absent node that is {NoneType: None}; the type of a bool is bool, not
\* int.
C13_ElementIsTypeAndValue ==
    \A i \in 1..Len(log) :
        (log[i].op = "call" /\ log[i].on # 0) =>
            /\ log[i].arg = <<"element">> =>
                   /\ log[i].ret = PyDict(<<[k |-> __call__(Mem, log[i].on, <<"type">>).ret.name,
                                             v |-> __call__(Mem, log[i].on, <<"value">>).ret]>>)
                   /\ IsAbsentPrimitive(Node(log[i].on)) =>
                          log[i].ret = PyDict(<<[k |-> "NoneType", v |-> PyNone]>>)
                   /\ _value(heap[log[i].on]).t \in {"bool", "int"} =>
                          log[i].ret.items[1].k = _value(heap[log[i].on]).t
            /\ log[i].arg = <<"type">> => log[i].ret = PyType(_value(heap[log[i].on]).t)

\* the element of an absent node, reached by a missing key or index, was
\* requested
C13_Witness ==
    /\ Len(log) = 2
    /\ log[1].how = "absent"
    /\ log[2].op = "call" /\ log[2].arg = <<"element">> /\ log[2].on = log[1].ret.id

\* C14: the json request returns the JSON text of the value of an Object or
\* Array and of the element of a Primitive; for an absent node the text
\* decodes to {"NoneType": null}.
C14_JsonRequest ==
    \A i \in 1..Len(log) :
        (log[i].op = "call" /\ log[i].arg = <<"json">> /\ log[i].on # 0) =>
            /\ log[i].ret = PyStr(json_dumps(IF IsPrimitive(log[i].on) THEN _element(heap[log[i].on])
                                              ELSE _value(heap[log[i].on])))
            /\ IsAbsentPrimitive(Node(log[i].on)) =>
                   JsonDecode(log[i].ret.s) = PyDict(<<[k |-> "NoneType", v |-> PyNone]>>)

\* C15: JSON round trip: the text the json request on the root returns
\* decodes, with a standard JSON decoder, to exactly what the value request
\* returns.
C15_JsonRoundTrip ==
    \A i \in 1..Len(log) :
        (/\ log[i].op = "call" /\ log[i].arg = <<"json">>
         /\ root._structure # PyNone /\ log[i].on = root._structure.id
         /\ (IsObject(log[i].on) \/ IsArray(log[i].on))) =>
            /\ log[i].ret.t = "str"
            /\ JsonDecode(log[i].ret.s) = __call__(Mem, log[i].on, <<"value">>).ret

\* the constructor the client called
Entry == IF root._root_type \in DirectEntries THEN root._root_type ELSE "PyHydrate"

\* the client gave PyHydrate a string
StringSource == Entry = "PyHydrate" /\ source.t = "str"

\* the document of the first decoder, in the order JSON, TOML, YAML, that
\* succeeds on the text
FirstDecode(text) ==
    IF json_loads(text).exc = "none" THEN json_loads(text).v
    ELSE IF tomllib_loads(text).exc = "none" THEN tomllib_loads(text).v
    ELSE yaml_safe_load(text).v

\* no decoder succeeds on the text
Undecodable(text) ==
    /\ json_loads(text).exc # "none"
    /\ tomllib_loads(text).exc # "none"
    /\ yaml_safe_load(text).exc # "none"

\* C16: a string is decoded by JSON, then TOML, then YAML, and the document
\* built is the result of the first decoder that succeeds: no later decoder
\* is applied, to a string an earlier decoder produced either.
C16_FirstDecoderWins ==
    (StringSource /\ ~Undecodable(source.s)) =>
        /\ root._root_type # "raised"
        /\ root._structure # PyNone
        /\ heap[root._structure.id]._raw_value = FirstDecode(source.s)

\* C17: a string that JSON, TOML and YAML all fail to decode does not make
\* the constructor raise: the root is a Primitive holding the string itself,
\* of type str.
C17_UndecodableStaysString ==
    (StringSource /\ Undecodable(source.s)) =>
        /\ root._root_type # "raised"
        /\ root._structure # PyNone
        /\ IsPrimitive(root._structure.id)
        /\ _value(heap[root._structure.id]) = source
        /\ _type(heap[root._structure.id]) = PyType("str")

\* the values of an unsupported type in the tree of v, as the constructors
\* descend it
RECURSIVE Rejects(_)
RECURSIVE RejectsFrom(_, _)
RejectsFrom(vs, i) == IF i > Len(vs) THEN 0 ELSE Rejects(vs[i]) + RejectsFrom(vs, i + 1)

Rejects(v) ==
    IF v.t = "dict" THEN RejectsFrom([i \in 1..Len(v.items) |-> v.items[i].v], 1)
    ELSE IF v.t = "list" THEN RejectsFrom(v.elems, 1)
    ELSE IF v.t \in _primitives THEN 0
    ELSE 1

\* the value given to the constructor called is not of the shape it builds
RootRejected ==
    \/ Entry = "PyHydrate" /\ source.t \notin {"dict", "list"} \cup _primitives
    \/ Entry = "NotationObject" /\ source.t # "dict"
    \/ Entry = "NotationArray" /\ source.t # "list"
    \/ Entry = "NotationPrimitive" /\ source.t \notin _primitives

\* C18: construction fails softly for a value of an unsupported shape, as
\* the root, inside a mapping, inside a sequence or given to a node
\* constructor: nothing is raised, the node made for it holds None, the rest
\* of the tree is built, and each rejected value gives exactly one warning.
C18_SoftFailure ==
    source.t # "str" =>
        /\ root._root_type # "raised"
        /\ warnings = (IF RootRejected THEN 1 ELSE Rejects(source))
        /\ root._structure # PyNone
        /\ RootRejected => _value(heap[root._structure.id]) = PyNone
        /\ (~RootRejected /\ source.t = "list") =>
               LET elems == heap[root._structure.id]._hydrated_value.elems
               IN  /\ Len(elems) = Len(source.elems)
                   /\ \A i \in 1..Len(elems) :
                          /\ source.elems[i].t \in _primitives => _value(heap[elems[i]]) = source.elems[i]
                          /\ source.elems[i].t \notin {"dict", "list"} \cup _primitives =>
                                 _value(heap[elems[i]]) = PyNone
        /\ (~RootRejected /\ source.t = "dict") =>
               LET items == heap[root._structure.id]._hydrated_value.items
               IN  \A i \in 1..Len(source.items) :
                       /\ DictHas(items, _cast_key(source.items[i].k))
                       /\ source.items[i].v.t \notin {"dict", "list"} \cup _primitives =>
                              _value(heap[DictGet(items, _cast_key(source.items[i].k), 0)]) = PyNone

\* the object the access or call was made on came out of a construction
\* that rejected its value: the wrapper without a structure, an Object or
\* Array without children, a Primitive made for a rejected value
Failed(on) ==
    IF on = 0 THEN root._structure = PyNone /\ root._root_type # "raised"
    ELSE \/ heap[on].cls \in {"NotationObject", "NotationArray"} /\ heap[on]._hydrated_value = PyNone
         \/ on = root._structure.id /\ RootRejected
         \/ /\ ~RootRejected /\ source.t = "list"
            /\ \E i \in 1..Len(source.elems) :
                   source.elems[i] = PyTuple /\ heap[root._structure.id]._hydrated_value.elems[i] = on

\* C19: what a construction-shape failure produced behaves as an absent
\* Primitive: its value is None, its type NoneType, and every later field
\* access, index access and call on it raises nothing and gives an absent
\* result.
C19_FailedActsAbsent ==
    \A i \in 1..Len(log) :
        Failed(log[i].on) =>
            /\ log[i].exc = "none"
            /\ IsAccess(log[i]) => (log[i].how = "absent" /\ IsAbsentPrimitive(log[i].ret))
            /\ (log[i].op = "call" /\ log[i].arg \in {<<>>, <<"value">>}) => log[i].ret = PyNone
            /\ (log[i].op = "call" /\ log[i].arg = <<"type">>) => log[i].ret = PyType("NoneType")

\* the value the root holds: None when the wrapper holds no node
RootValue == IF root._structure = PyNone THEN PyNone ELSE _value(heap[root._structure.id])

IsCoercion(e) == e.op \in {"int", "float"}

\* the number the claim expects of a numeric root
Converted(op, v) ==
    IF op = "int" THEN PyInt(RefInteger(v).k)
    ELSE IF v.t = "bool" THEN PyFloat(IF v.b THEN 10 ELSE 0)
    ELSE IF v.t = "int" THEN PyFloat(10 * v.n)
    ELSE v

Truthy(v) ==
    ~ \/ v = PyNone
      \/ v = PyBool(FALSE)
      \/ v = PyInt(0)
      \/ v = PyFloat(0)
      \/ v = PyStr(<<>>)
      \/ v = PyDict(<<>>)
      \/ v = PyList(<<>>)

\* C21: bool(root) follows the standard truthiness of the wrapped value for
\* every input: false exactly when the root holds an empty string, an empty
\* object, an empty array, 0, 0.0, false or absent, true for every other
\* root; it never raises.
C21_BoolIsTruthiness ==
    \A i \in 1..Len(log) : log[i].op = "bool" =>
        /\ log[i].exc = "none"
        /\ log[i].ret = PyBool(Truthy(RootValue))

\* bool was taken of an empty Object root and gave false
C21_Witness ==
    /\ RootValue = PyDict(<<>>)
    /\ \E i \in 1..Len(log) : log[i].op = "bool" /\ log[i].ret = PyBool(FALSE)

\* C22: nodes are immutable after construction.  No field access, index
\* access or call (with a valid or an invalid request) changes any stored
\* state of a node that exists: its class, value, depth, children and every
\* other attribute stay what they were.
C22_NodesImmutable ==
    [][\A id \in 1..Len(heap) : heap'[id] = heap[id]]_vars

\* C23: debug mode does not alter results.  At every step of every sequence
\* of accesses and calls, the operation on a tree built with debug enabled
\* returns what it returns on the tree built from the same input with debug
\* disabled (the same node or value, the same absent result, nothing
\* raised by one and not the other) and leaves the same tree; building the
\* tree prints nothing, and a line is printed only with debug enabled.
C23_DebugDoesNotAlter ==
    /\ \A i \in 1..Len(log) :
           /\ log[i].traced = log[i].plain
           /\ log[i].printed # <<>> => root._debug
    /\ \A id \in 1..Len(heap) :
           _print_debug(Mem, id, "Call", <<"value">>, TRUE, root._debug) = [mem |-> Mem, lines |-> <<>>]

\* with debug enabled, a field access and a call on its result each printed
\* a line
C23_Witness ==
    /\ root._debug
    /\ \E i, j \in 1..Len(log) :
           /\ log[i].op = "getattr" /\ log[i].how = "child" /\ log[i].printed # <<>>
           /\ log[j].op = "call" /\ log[j].on = log[i].ret.id /\ log[j].printed # <<>>

\* C24: warnings are emitted only for a construction from an unsupported raw
\* shape and for an unrecognised call request.  On a tree built from
\* supported input the construction emits none, and no field access or index
\* access (a hit, a missing key, an index out of range, a non-numeric or null
\* index, an access on an absent node) and no call with a recognised request
\* emits any.
C24_NoSpuriousWarnings ==
    /\ log = <<>> => warnings = 0
    /\ \A i \in 1..Len(log) :
           (IsAccess(log[i]) \/ (log[i].op = "call" /\ (log[i].arg = <<>> \/ log[i].arg[1] \in ValidRequests))) =>
               log[i].warned = 0

\* a null index on an Array gave an absent node, an access was made on that
\* node, and no warning has been emitted
C24_Witness ==
    /\ warnings = 0
    /\ \E i, j \in 1..Len(log) :
           /\ log[i].op = "getitem" /\ log[i].arg = PyNone /\ IsArray(log[i].on) /\ log[i].how = "absent"
           /\ IsAccess(log[j]) /\ log[j].on = log[i].ret.id

\* the nodes the node id holds as its children
ChildrenOf(id) ==
    IF heap[id]._hydrated_value.t = "dict"
    THEN {heap[id]._hydrated_value.items[i].v : i \in 1..Len(heap[id]._hydrated_value.items)}
    ELSE IF heap[id]._hydrated_value.t = "list"
    THEN {heap[id]._hydrated_value.elems[i] : i \in 1..Len(heap[id]._hydrated_value.elems)}
    ELSE {}

\* C25: lazy loading.  A child node object exists only once it has been
\* accessed: after the root is constructed and before any access no child
\* node exists, and a branch that was never accessed is never created.
C25_LazyLoading ==
    \A id \in 1..Len(heap) : \A child \in ChildrenOf(id) :
        \E i \in 1..Len(log) : IsAccess(log[i]) /\ log[i].on = id /\ log[i].ret = Node(child)

\* C26: a field access that misses on an Object returns an absent Primitive
\* at the depth of the Object the lookup was made on, not a deeper one: the
\* depth request on the result gives what it gives on the Object.
C26_MissKeepsDepth ==
    \A i \in 1..Len(log) :
        (log[i].op = "getattr" /\ IsObject(log[i].on) /\ log[i].how = "absent") =>
            /\ IsAbsentPrimitive(log[i].ret)
            /\ __call__(Mem, log[i].ret.id, <<"depth">>).ret = __call__(Mem, log[i].on, <<"depth">>).ret
            /\ \A j \in 1..Len(log) :
                   (log[j].op = "call" /\ log[j].on = log[i].ret.id /\ log[j].arg = <<"depth">>) =>
                       log[j].ret = PyInt(heap[log[i].on]._depth)

\* the number of successful accesses that lead from the root to what entry
\* i of the log returned (0: entry i is no such access)
RECURSIVE Hops(_)
Hops(i) ==
    IF ~(IsAccess(log[i]) /\ log[i].how = "child") THEN 0
    ELSE IF log[i].on = root._structure.id THEN 1
    ELSE IF i > 1 /\ Hops(i - 1) > 0 /\ log[i - 1].ret = Node(log[i].on) THEN Hops(i - 1) + 1
    ELSE 0

\* C27: depth is consistent across a tree.  The root reports the same
\* starting depth (1) for every input shape, through the wrapper's depth
\* request as well; the node a successful field or index access returns
\* reports its parent's depth plus one; so the node reached by k successful
\* accesses from the root reports the root's depth plus k.
C27_DepthConsistent ==
    /\ heap[root._structure.id]._depth = 1
    /\ \A i \in 1..Len(log) :
           /\ (log[i].op = "call" /\ log[i].on = root._structure.id) => log[i].ret = PyInt(1)
           /\ (IsAccess(log[i]) /\ log[i].how = "child") =>
                  heap[log[i].ret.id]._depth = heap[log[i].on]._depth + 1
           /\ Hops(i) > 0 =>
                  /\ heap[log[i].ret.id]._depth = 1 + Hops(i)
                  /\ \A j \in 1..Len(log) :
                         (log[j].op = "call" /\ log[j].on = log[i].ret.id) => log[j].ret = PyInt(1 + Hops(i))

\* the depth request was made on a node two successful accesses below the
\* root
C27_Witness ==
    \E i, j \in 1..Len(log) :
        /\ Hops(i) = 2
        /\ log[j].op = "call" /\ log[j].on = log[i].ret.id /\ log[j].ret = PyInt(3)

\* the component of the parent's value that the access e addresses: the
\* entry under the key, or the element at the index (counted from the end
\* when negative)
ComponentAt(e) ==
    LET parent == _value(heap[e.on])
    IN  IF e.op = "getattr" THEN DictGet(parent.items, e.arg, Unset)
        ELSE parent.elems[IF e.arg.n >= 0 THEN e.arg.n + 1 ELSE Len(parent.elems) + e.arg.n + 1]

\* C28: parent and child values agree.  For every canonical key present in
\* an Object and every in-range index of an Array, the value of the child
\* that field(k) or index(i) returns equals the component stored under k or
\* at position i in the value of the parent, for a child of every variant.
C28_ParentChildAgree ==
    \A i \in 1..Len(log) :
        (Present(log[i]) /\ log[i].how = "child") =>
            __call__(Mem, log[i].ret.id, <<"value">>).ret = ComponentAt(log[i])

\* C29: a tree is independent of its source after construction.  When the
\* caller's input mapping or sequence is modified after the tree was built,
\* every request on every node still returns what it returned before, and
\* every access returns a child of the same value: two requests with the
\* same argument on the same node give the same result, whatever the client
\* did to its source in between.
C29_IndependentOfSource ==
    \A i, j \in 1..Len(log) :
        (log[i].on = log[j].on /\ log[i].op = log[j].op /\ log[i].arg = log[j].arg) =>
            /\ log[i].op = "call" => log[i].ret = log[j].ret
            /\ (IsAccess(log[i]) /\ log[i].how \in {"child", "absent"}) =>
                   Observable(log[i].ret) = Observable(log[j].ret)

\* the canonical keys of the Object id
KeysOf(id) == {heap[id]._hydrated_value.items[i].k : i \in 1..Len(heap[id]._hydrated_value.items)}

\* C30: Object field lookup compares the requested name exactly against the
\* canonical keys and does not normalise it.  A field access on an Object
\* returns the child stored under the requested name when the name is a
\* canonical key of the Object (the value of source key aB under a_b), and
\* an absent Primitive for every other name, a source spelling such as aB
\* included.
C30_LookupIsExact ==
    \A i \in 1..Len(log) :
        (log[i].op = "getattr" /\ IsObject(log[i].on) /\ heap[log[i].on]._hydrated_value.t = "dict") =>
            IF log[i].arg \in KeysOf(log[i].on)
            THEN /\ log[i].how = "child"
                 /\ log[i].ret = Node(DictGet(heap[log[i].on]._hydrated_value.items, log[i].arg, 0))
            ELSE /\ log[i].how = "absent"
                 /\ IsAbsentPrimitive(log[i].ret)

=============================================================================
